---- MODULE Spec2Model ----
(* Lazy zero-phase filtering of multi-segment recordings                    *)
(* (spikeinterface/toolkit/preprocessing/filter.py).                        *)
(*                                                                          *)
(* Two state machines share the module:                                     *)
(*   Spec      the constructors FilterRecording, BandpassFilterRecording,   *)
(*             NotchFilterRecording, the dispatcher filter(), and the       *)
(*             rebuild of an instance from its _kwargs;                     *)
(*   ReadSpec  concurrent FilterRecordingSegment.get_traces calls on the    *)
(*             segments of one constructed recording.                       *)
(*                                                                          *)
(* Conventions: an optional value (None / absent keyword) is the empty      *)
(* sequence, a present one a one-element sequence. Durations in ms and      *)
(* normalised frequencies are exact rationals [num, den].                   *)
EXTENDS Integers, Sequences, FiniteSets, TLC

VARIABLES
    ctor,      \* the frame of the constructor (or dispatcher) call in progress
    inst,      \* the recording the last call returned, if any
    orig,      \* the instance whose _kwargs the call in progress rebuilds
    ret,       \* how the last call ended
    segments,  \* the filter segments of the recording that is read
    parent,    \* the samples of each parent segment
    frames     \* the frame of each caller's get_traces call

vars == <<ctor, inst, orig, ret, segments, parent, frames>>

buildVars == <<ctor, inst, orig, ret>>

readVars == <<segments, parent, frames>>

(***************************************************************************)
(* Bounds of the model                                                     *)
(***************************************************************************)
MaxSegs == 2

MaxFrames == 4

MaxMargin == 2

(***************************************************************************)
(* Generic helpers                                                         *)
(***************************************************************************)
None == <<>>

Some(x) == <<x>>

IsSome(o) == Len(o) = 1

GetOr(o, d) == IF Len(o) = 1 THEN o[1] ELSE d

Min(a, b) == IF a <= b THEN a ELSE b

Max(a, b) == IF a >= b THEN a ELSE b

Rat(n, d) == [num |-> n, den |-> d]

(***************************************************************************)
(* Default arguments of the constructors                                   *)
(***************************************************************************)
Scalar(f) == [kind |-> "scalar", v |-> <<f>>]

List(fs) == [kind |-> "list", v |-> fs]

DefaultFreqMin == 300

DefaultFreqMax == 6000

DefaultBand == List(<<DefaultFreqMin, DefaultFreqMax>>)

DefaultBtype == "bandpass"

DefaultFilterOrder == 5

DefaultFtype == "butter"

DefaultFilterMode == "sos"

DefaultMarginMs == Rat(5, 1)

DefaultNotchFreq == 3000

DefaultNotchQ == 30

DefaultEngine == "scipy"

ValidBtypes == {"bandpass", "lowpass", "highpass", "bandstop"}

TwoEdgeBtypes == {"bandpass", "bandstop"}

ValidFilterModes == {"sos", "ba"}

(***************************************************************************)
(* Inputs the callers may pass                                             *)
(***************************************************************************)
SamplingFrequencies == {3500, 30000}

Recordings ==
    [sf : SamplingFrequencies, nseg : 1..MaxSegs, dtype : {"int16"}]

BandInputs ==
    { Scalar(300), List(<<300>>), List(<<300, 6000>>),
      List(<<300, 6000, 9000>>), List(<<300, 20000>>) }

BtypeInputs == ValidBtypes \cup {"allpass"}

FilterModeInputs == ValidFilterModes \cup {"zpk"}

MarginMsInputs == {Rat(0, 1), Rat(5, 1), Rat(1, 2), Rat(1, 8)}

DtypeInputs == {None, Some("float32")}

FreqPairInputs == {<<300, 6000>>, <<500, 1500>>}

FilterKwargsInputs ==
    [btype : {None, Some("bandpass"), Some("bandstop"), Some("lowpass"),
              Some("allpass")},
     filter_mode : {None, Some("ba"), Some("zpk")},
     filter_order : {None, Some(3)},
     band : {None, Some(List(<<300, 6000>>))}]

NotchFreqInputs == {50, 3000}

EngineInputs == {"scipy", "opencl", "cuda"}

(***************************************************************************)
(* Numeric conversions                                                     *)
(***************************************************************************)
\* int(x) of Python for the rational x = n/d (d > 0): truncation toward zero.
IntTrunc(n, d) == IF n >= 0 THEN n \div d ELSE -((-n) \div d)

\* round(x) of Python for the rational x = n/d (d > 0, n >= 0): nearest
\* integer, ties to the even one.
RoundHalfEven(n, d) ==
    LET q == n \div d
        r == n % d
    IN  IF 2 * r < d THEN q
        ELSE IF 2 * r > d THEN q + 1
        ELSE IF q % 2 = 0 THEN q ELSE q + 1

\* A margin rounded to the nearest sample instead of truncated.
FilterMarginRounded(margin_ms, sf) ==
    RoundHalfEven(margin_ms.num * sf, margin_ms.den * 1000)

\* margin = int(margin_ms * sf / 1000.) in FilterRecording.__init__
FilterMargin(margin_ms, sf) ==
    IntTrunc(margin_ms.num * sf, margin_ms.den * 1000)

\* margin = int(margin_ms * sf / 1000.) in NotchFilterRecording.__init__
NotchMargin(margin_ms, sf) ==
    IntTrunc(margin_ms.num * sf, margin_ms.den * 1000)

\* e / sf * 2
Normalized(e, sf) == Rat(2 * e, sf)

\* The coefficient design service accepts critical frequencies in (0, 1).
Feasible(w) == 0 < w.num /\ w.num < w.den

(***************************************************************************)
(* Coefficient design (external collaborator called by the constructors)   *)
(***************************************************************************)
\* scipy.signal.iirfilter(N, Wn, analog=False, btype, ftype, output): the
\* designed coefficients, identified by the design parameters.
IirFilter(N, Wn, btype, ftype, output) ==
    [N |-> N, Wn |-> Wn, btype |-> btype, ftype |-> ftype,
     output |-> output, Q |-> None]

IirFilterFeasible(Wn) == \A i \in 1..Len(Wn.v) : Feasible(Wn.v[i])

\* scipy.signal.iirnotch(w0, Q): a (b, a) pair.
IirNotch(w0, q) ==
    [N |-> 2, Wn |-> [kind |-> "scalar", v |-> <<w0>>], btype |-> "notch",
     ftype |-> "iirnotch", output |-> "ba", Q |-> Some(q)]

(***************************************************************************)
(* Objects                                                                 *)
(***************************************************************************)
\* FilterRecordingSegment.__init__: the four attributes and the parent.
FilterRecordingSegment(parent_segment, coeff, filter_mode, margin, dtype) ==
    [parent |-> parent_segment, coeff |-> coeff, filter_mode |-> filter_mode,
     margin |-> margin, dtype |-> dtype]

\* The k-th segment of a parent recording.
ParentSegment(rec, k) == [recording |-> rec, index |-> k]

NoKwargs ==
    [recording |-> None, band |-> None, btype |-> None, filter_order |-> None,
     ftype |-> None, filter_mode |-> None, margin_ms |-> None,
     freq_min |-> None, freq_max |-> None, freq |-> None, q |-> None,
     dtype |-> None]

NoFilterKwargs ==
    [btype |-> None, filter_mode |-> None, filter_order |-> None,
     band |-> None]

ARecording == [sf |-> 30000, nseg |-> 1, dtype |-> "int16"]

\* The frame of the constructor call in progress (its arguments and self).
IdleFrame ==
    [pc |-> "idle", api |-> "class", engine |-> DefaultEngine,
     cls |-> "FilterRecording", recording |-> ARecording,
     band |-> DefaultBand, btype |-> DefaultBtype,
     filter_order |-> DefaultFilterOrder, ftype |-> DefaultFtype,
     filter_mode |-> DefaultFilterMode, margin_ms |-> DefaultMarginMs,
     dtype |-> None, freq_min |-> DefaultFreqMin,
     freq_max |-> DefaultFreqMax, filter_kwargs |-> NoFilterKwargs,
     freq |-> DefaultNotchFreq, q |-> DefaultNotchQ,
     designed |-> FALSE, coeff |-> None, dtype_base |-> None,
     is_filtered |-> FALSE, margin |-> None, segments |-> <<>>,
     kwargs |-> NoKwargs, exc |-> None]

\* What the caller holds once a constructor has returned self.
Instance(f) ==
    [cls |-> f.cls, recording |-> f.recording, coeff |-> f.coeff,
     filter_mode |-> IF f.cls = "NotchFilterRecording" THEN "ba"
                     ELSE f.filter_mode,
     margin |-> f.margin, dtype |-> f.dtype_base,
     is_filtered |-> f.is_filtered, segments |-> f.segments,
     kwargs |-> f.kwargs]

Running == [kind |-> "running", exc |-> None]

Raise(f, e) == [f EXCEPT !.pc = "raised", !.exc = Some(e)]

Raised(e) == [kind |-> "exception", exc |-> Some(e)]

(***************************************************************************)
(* FilterRecording.__init__                                                *)
(***************************************************************************)
\* A call FilterRecording(recording, band, btype, filter_order, ftype,
\* filter_mode, margin_ms, dtype): the frame at the first statement.
FilterFrame(api, cls, rec, band, btype, order, ftype, mode, margin_ms, dtype) ==
    [IdleFrame EXCEPT !.pc = "assert_btype", !.api = api, !.cls = cls,
                      !.recording = rec, !.band = band, !.btype = btype,
                      !.filter_order = order, !.ftype = ftype,
                      !.filter_mode = mode, !.margin_ms = margin_ms,
                      !.dtype = dtype]

CallFilterRecording ==
    /\ ctor.pc = "idle"
    /\ \E rec \in Recordings, band \in BandInputs, btype \in BtypeInputs,
          mode \in FilterModeInputs, margin_ms \in MarginMsInputs,
          dtype \in DtypeInputs :
          ctor' = FilterFrame("class", "FilterRecording", rec, band, btype,
                              DefaultFilterOrder, DefaultFtype, mode,
                              margin_ms, dtype)
    /\ ret' = Running
    /\ UNCHANGED <<inst, orig, readVars>>

BtypeAccepted(btype) == btype \in ValidBtypes

\* assert btype in ('bandpass', 'lowpass', 'highpass', 'bandstop')
AssertBtype ==
    /\ ctor.pc = "assert_btype"
    /\ IF BtypeAccepted(ctor.btype)
       THEN /\ ctor' = [ctor EXCEPT !.pc = "assert_mode"]
            /\ ret' = ret
       ELSE /\ ctor' = Raise(ctor, "AssertionError")
            /\ ret' = Raised("AssertionError")
    /\ UNCHANGED <<inst, orig, readVars>>

\* The representation check left out.
FilterModeAcceptedAny(filter_mode) == TRUE

FilterModeAccepted(filter_mode) == filter_mode \in ValidFilterModes

\* assert filter_mode in ('sos', 'ba')
AssertFilterMode ==
    /\ ctor.pc = "assert_mode"
    /\ IF FilterModeAccepted(ctor.filter_mode)
       THEN /\ ctor' = [ctor EXCEPT !.pc = "coeff"]
            /\ ret' = ret
       ELSE /\ ctor' = Raise(ctor, "AssertionError")
            /\ ret' = Raised("AssertionError")
    /\ UNCHANGED <<inst, orig, readVars>>

\* The cardinality check left out.
BandHasAnyEdges(band) == TRUE

\* len(band) == 2 (band is known to be a sequence here)
BandHasTwoEdges(band) == Len(band.v) = 2

\* float(band): defined for a number, a TypeError for a list
FloatOk(band) == band.kind = "scalar"

\* The outcome of the statements between "# coefficient" and the call of
\* iirfilter: the normalised Wn, or the exception they raise.
BandToWn(band, btype, sf) ==
    IF btype \in TwoEdgeBtypes
    THEN IF band.kind = "scalar"
         THEN [ok |-> FALSE, exc |-> "TypeError", Wn |-> List(<<>>)]
         ELSE IF ~BandHasTwoEdges(band)
         THEN [ok |-> FALSE, exc |-> "AssertionError", Wn |-> List(<<>>)]
         ELSE [ok |-> TRUE, exc |-> "",
               Wn |-> List([i \in 1..Len(band.v) |->
                                Normalized(band.v[i], sf)])]
    ELSE IF ~FloatOk(band)
         THEN [ok |-> FALSE, exc |-> "TypeError", Wn |-> List(<<>>)]
         ELSE [ok |-> TRUE, exc |-> "",
               Wn |-> Scalar(Normalized(band.v[1], sf))]

\* sf = ...; Wn = ...; N = filter_order; coeff = scipy.signal.iirfilter(...)
DesignCoeff ==
    /\ ctor.pc = "coeff"
    /\ LET w == BandToWn(ctor.band, ctor.btype, ctor.recording.sf)
       IN  IF ~w.ok
           THEN /\ ctor' = Raise(ctor, w.exc)
                /\ ret' = Raised(w.exc)
           ELSE IF ~IirFilterFeasible(w.Wn)
           THEN /\ ctor' = [Raise(ctor, "ValueError") EXCEPT !.designed = TRUE]
                /\ ret' = Raised("ValueError")
           ELSE /\ ctor' = [ctor EXCEPT
                              !.pc = "base", !.designed = TRUE,
                              !.coeff = Some(IirFilter(ctor.filter_order, w.Wn,
                                                       ctor.btype, ctor.ftype,
                                                       ctor.filter_mode))]
                /\ ret' = ret
    /\ UNCHANGED <<inst, orig, readVars>>

\* BasePreprocessor.__init__(self, recording, dtype=dtype); get_dtype():
\* the given dtype, or the parent's when None was given.
BaseDtype(recording, dtype) == GetOr(dtype, recording.dtype)

\* BasePreprocessor.__init__; dtype_base = self.get_dtype();
\* self.annotate(is_filtered=True)
BaseInit ==
    /\ ctor.pc = "base"
    /\ ctor' = [ctor EXCEPT !.pc = "margin",
                            !.dtype_base = Some(BaseDtype(ctor.recording,
                                                          ctor.dtype)),
                            !.is_filtered = TRUE]
    /\ UNCHANGED <<inst, orig, ret, readVars>>

\* margin = int(margin_ms * sf / 1000.)
ComputeMargin ==
    /\ ctor.pc = "margin"
    /\ ctor' = [ctor EXCEPT !.pc = "segments",
                            !.margin = Some(FilterMargin(ctor.margin_ms,
                                                         ctor.recording.sf))]
    /\ UNCHANGED <<inst, orig, ret, readVars>>

\* One iteration of: for parent_segment in recording._recording_segments:
\*     self.add_recording_segment(FilterRecordingSegment(...))
AddSegment ==
    /\ ctor.pc = "segments"
    /\ Len(ctor.segments) < ctor.recording.nseg
    /\ ctor' = [ctor EXCEPT !.segments =
                  Append(@, FilterRecordingSegment(
                                ParentSegment(ctor.recording, Len(@) + 1),
                                ctor.coeff[1], ctor.filter_mode,
                                ctor.margin[1], ctor.dtype_base[1]))]
    /\ UNCHANGED <<inst, orig, ret, readVars>>

\* self._kwargs = dict(recording=recording.to_dict(), band=band, ...)
FilterKwargs(f) ==
    [NoKwargs EXCEPT !.recording = Some(f.recording), !.band = Some(f.band),
                     !.btype = Some(f.btype),
                     !.filter_order = Some(f.filter_order),
                     !.ftype = Some(f.ftype),
                     !.filter_mode = Some(f.filter_mode),
                     !.margin_ms = Some(f.margin_ms)]

\* The loop is over; self._kwargs is set, and FilterRecording.__init__
\* returns (to its caller, or to BandpassFilterRecording.__init__).
SetKwargs ==
    /\ ctor.pc = "segments"
    /\ Len(ctor.segments) = ctor.recording.nseg
    /\ IF ctor.cls = "BandpassFilterRecording"
       THEN /\ ctor' = [ctor EXCEPT !.pc = "bandpass_kwargs",
                                    !.kwargs = FilterKwargs(ctor)]
            /\ UNCHANGED <<inst, ret>>
       ELSE LET done == [ctor EXCEPT !.pc = "returned",
                                     !.kwargs = FilterKwargs(ctor)]
            IN  /\ ctor' = done
                /\ inst' = Some(Instance(done))
                /\ ret' = [kind |-> "recording", exc |-> None]
    /\ UNCHANGED <<orig, readVars>>

(***************************************************************************)
(* BandpassFilterRecording.__init__                                        *)
(***************************************************************************)
\* The family the forwarded call runs with: FilterRecording.__init__ is
\* called with band, margin_ms, dtype and **filter_kwargs, so btype is the
\* one in filter_kwargs when there is one, and the default otherwise.
BandpassBtype(filter_kwargs) == GetOr(filter_kwargs.btype, DefaultBtype)

\* FilterRecording.__init__(self, recording, band=[freq_min, freq_max],
\*                          margin_ms=margin_ms, dtype=dtype, **filter_kwargs)
BandpassForward(rec, freq_min, freq_max, margin_ms, dtype, filter_kwargs) ==
    LET f == FilterFrame("class", "BandpassFilterRecording", rec,
                         List(<<freq_min, freq_max>>),
                         BandpassBtype(filter_kwargs),
                         GetOr(filter_kwargs.filter_order, DefaultFilterOrder),
                         DefaultFtype,
                         GetOr(filter_kwargs.filter_mode, DefaultFilterMode),
                         margin_ms, dtype)
        g == [f EXCEPT !.freq_min = freq_min, !.freq_max = freq_max,
                       !.filter_kwargs = filter_kwargs]
    IN  \* band given twice: "got multiple values for keyword argument"
        IF IsSome(filter_kwargs.band) THEN Raise(g, "TypeError") ELSE g

CallBandpassFilterRecording ==
    /\ ctor.pc = "idle"
    /\ \E rec \in Recordings, fr \in FreqPairInputs,
          margin_ms \in MarginMsInputs, dtype \in DtypeInputs,
          fk \in FilterKwargsInputs :
          LET f == BandpassForward(rec, fr[1], fr[2], margin_ms, dtype, fk)
          IN  /\ ctor' = f
              /\ ret' = IF f.pc = "raised" THEN Raised("TypeError")
                        ELSE Running
    /\ UNCHANGED <<inst, orig, readVars>>

\* self._kwargs = dict(recording=..., freq_min=..., freq_max=...,
\*                     margin_ms=...); self._kwargs.update(filter_kwargs)
BandpassKwargs(f) ==
    [NoKwargs EXCEPT !.recording = Some(f.recording),
                     !.freq_min = Some(f.freq_min),
                     !.freq_max = Some(f.freq_max),
                     !.margin_ms = Some(f.margin_ms),
                     !.btype = f.filter_kwargs.btype,
                     !.filter_mode = f.filter_kwargs.filter_mode,
                     !.filter_order = f.filter_kwargs.filter_order,
                     !.band = f.filter_kwargs.band]

SetBandpassKwargs ==
    /\ ctor.pc = "bandpass_kwargs"
    /\ LET done == [ctor EXCEPT !.pc = "returned",
                                !.kwargs = BandpassKwargs(ctor)]
       IN  /\ ctor' = done
           /\ inst' = Some(Instance(done))
    /\ ret' = [kind |-> "recording", exc |-> None]
    /\ UNCHANGED <<orig, readVars>>

(***************************************************************************)
(* NotchFilterRecording.__init__                                           *)
(***************************************************************************)
NotchFrame(rec, freq, q, margin_ms, dtype) ==
    [IdleFrame EXCEPT !.pc = "notch_coeff", !.cls = "NotchFilterRecording",
                      !.recording = rec, !.freq = freq, !.q = q,
                      !.margin_ms = margin_ms, !.dtype = dtype,
                      !.filter_mode = "ba"]

CallNotchFilterRecording ==
    /\ ctor.pc = "idle"
    /\ \E rec \in Recordings, freq \in NotchFreqInputs,
          margin_ms \in MarginMsInputs, dtype \in DtypeInputs :
          ctor' = NotchFrame(rec, freq, DefaultNotchQ, margin_ms, dtype)
    /\ ret' = Running
    /\ UNCHANGED <<inst, orig, readVars>>

\* fn = 0.5 * float(sf); coeff = scipy.signal.iirnotch(freq / fn, q)
NotchDesign ==
    /\ ctor.pc = "notch_coeff"
    /\ LET w0 == Normalized(ctor.freq, ctor.recording.sf)
       IN  IF Feasible(w0)
           THEN /\ ctor' = [ctor EXCEPT !.pc = "notch_base",
                                        !.designed = TRUE,
                                        !.coeff = Some(IirNotch(w0, ctor.q))]
                /\ ret' = ret
           ELSE /\ ctor' = [Raise(ctor, "ValueError") EXCEPT !.designed = TRUE]
                /\ ret' = Raised("ValueError")
    /\ UNCHANGED <<inst, orig, readVars>>

\* BasePreprocessor.__init__; dtype_base = self.get_dtype();
\* self.annotate(is_filtered=True)
NotchBaseInit ==
    /\ ctor.pc = "notch_base"
    /\ ctor' = [ctor EXCEPT !.pc = "notch_margin",
                            !.dtype_base = Some(BaseDtype(ctor.recording,
                                                          ctor.dtype)),
                            !.is_filtered = TRUE]
    /\ UNCHANGED <<inst, orig, ret, readVars>>

\* sf = recording.get_sampling_frequency(); margin = int(margin_ms*sf/1000.)
NotchComputeMargin ==
    /\ ctor.pc = "notch_margin"
    /\ ctor' = [ctor EXCEPT !.pc = "notch_segments",
                            !.margin = Some(NotchMargin(ctor.margin_ms,
                                                        ctor.recording.sf))]
    /\ UNCHANGED <<inst, orig, ret, readVars>>

\* One iteration of the loop adding FilterRecordingSegment(parent_segment,
\* coeff, 'ba', margin, dtype_base)
NotchAddSegment ==
    /\ ctor.pc = "notch_segments"
    /\ Len(ctor.segments) < ctor.recording.nseg
    /\ ctor' = [ctor EXCEPT !.segments =
                  Append(@, FilterRecordingSegment(
                                ParentSegment(ctor.recording, Len(@) + 1),
                                ctor.coeff[1], "ba", ctor.margin[1],
                                ctor.dtype_base[1]))]
    /\ UNCHANGED <<inst, orig, ret, readVars>>

\* self._kwargs = dict(recording=..., freq=freq, q=q, margin_ms=margin_ms)
NotchKwargs(f) ==
    [NoKwargs EXCEPT !.recording = Some(f.recording), !.freq = Some(f.freq),
                     !.q = Some(f.q), !.margin_ms = Some(f.margin_ms)]

NotchSetKwargs ==
    /\ ctor.pc = "notch_segments"
    /\ Len(ctor.segments) = ctor.recording.nseg
    /\ LET done == [ctor EXCEPT !.pc = "returned",
                                !.kwargs = NotchKwargs(ctor)]
       IN  /\ ctor' = done
           /\ inst' = Some(Instance(done))
    /\ ret' = [kind |-> "recording", exc |-> None]
    /\ UNCHANGED <<orig, readVars>>

(***************************************************************************)
(* filter(recording, engine='scipy', **kwargs)                             *)
(***************************************************************************)
\* The hardware backend's recording (filter_opencl is not part of this
\* file): a filtered recording over the same parent.
FilterOpenCLRecording(rec) ==
    [cls |-> "FilterOpenCLRecording", recording |-> rec, coeff |-> None,
     filter_mode |-> DefaultFilterMode, margin |-> None, dtype |-> None,
     is_filtered |-> TRUE, segments |-> <<>>, kwargs |-> NoKwargs]

\* The branch the dispatcher takes for an engine selector.
EngineBranch(engine) ==
    IF engine = "scipy" THEN "scipy"
    ELSE IF engine = "opencl" THEN "opencl"
    ELSE "fallthrough"

CallFilter ==
    /\ ctor.pc = "idle"
    /\ \E engine \in EngineInputs, rec \in Recordings, band \in BandInputs,
          btype \in BtypeInputs :
          LET f == FilterFrame("filter", "FilterRecording", rec, band, btype,
                               DefaultFilterOrder, DefaultFtype,
                               DefaultFilterMode, DefaultMarginMs, None)
              g == [f EXCEPT !.engine = engine]
          IN  CASE EngineBranch(engine) = "scipy" ->
                     \* return FilterRecording(recording, **kwargs)
                     /\ ctor' = g
                     /\ ret' = Running
                     /\ inst' = inst
                [] EngineBranch(engine) = "opencl" ->
                     \* return FilterOpenCLRecording(recording, **kwargs)
                     /\ ctor' = [g EXCEPT !.pc = "returned",
                                          !.cls = "FilterOpenCLRecording"]
                     /\ ret' = [kind |-> "recording", exc |-> None]
                     /\ inst' = Some(FilterOpenCLRecording(rec))
                [] OTHER ->
                     \* no branch matches: the function ends, returning None
                     /\ ctor' = [g EXCEPT !.pc = "returned"]
                     /\ ret' = [kind |-> "none", exc |-> None]
                     /\ inst' = None
    /\ UNCHANGED <<orig, readVars>>

(***************************************************************************)
(* Rebuilding an instance from its parameter set                           *)
(***************************************************************************)
\* cls(recording, **kwargs) for the _kwargs of an instance, the recording
\* entry loaded back to the parent: absent keys take the defaults.
FrameFromKwargs(cls, K) ==
    IF cls = "NotchFilterRecording"
    THEN NotchFrame(K.recording[1], GetOr(K.freq, DefaultNotchFreq),
                    GetOr(K.q, DefaultNotchQ),
                    GetOr(K.margin_ms, DefaultMarginMs), K.dtype)
    ELSE IF cls = "BandpassFilterRecording"
    THEN BandpassForward(K.recording[1], GetOr(K.freq_min, DefaultFreqMin),
                         GetOr(K.freq_max, DefaultFreqMax),
                         GetOr(K.margin_ms, DefaultMarginMs), K.dtype,
                         [btype |-> K.btype, filter_mode |-> K.filter_mode,
                          filter_order |-> K.filter_order, band |-> K.band])
    ELSE FilterFrame("class", "FilterRecording", K.recording[1],
                     GetOr(K.band, DefaultBand), GetOr(K.btype, DefaultBtype),
                     GetOr(K.filter_order, DefaultFilterOrder),
                     GetOr(K.ftype, DefaultFtype),
                     GetOr(K.filter_mode, DefaultFilterMode),
                     GetOr(K.margin_ms, DefaultMarginMs), K.dtype)

Reconstruct ==
    /\ ctor.pc = "returned"
    /\ IsSome(inst)
    /\ orig = None
    /\ inst[1].cls \in {"FilterRecording", "BandpassFilterRecording",
                        "NotchFilterRecording"}
    /\ ctor' = FrameFromKwargs(inst[1].cls, inst[1].kwargs)
    /\ orig' = inst
    /\ inst' = None
    /\ ret' = Running
    /\ UNCHANGED readVars

\* The caller drops what it holds and is ready for another call.
Reset ==
    /\ ctor.pc \in {"returned", "raised"}
    /\ ctor' = IdleFrame
    /\ inst' = None
    /\ orig' = None
    /\ ret' = [kind |-> "idle", exc |-> None]
    /\ UNCHANGED readVars

Init ==
    /\ ctor = IdleFrame
    /\ inst = None
    /\ orig = None
    /\ ret = [kind |-> "idle", exc |-> None]
    /\ segments = <<>>
    /\ parent = <<>>
    /\ frames = <<>>

Next ==
    \/ CallFilterRecording
    \/ AssertBtype
    \/ AssertFilterMode
    \/ DesignCoeff
    \/ BaseInit
    \/ ComputeMargin
    \/ AddSegment
    \/ SetKwargs
    \/ CallBandpassFilterRecording
    \/ SetBandpassKwargs
    \/ CallNotchFilterRecording
    \/ NotchDesign
    \/ NotchBaseInit
    \/ NotchComputeMargin
    \/ NotchAddSegment
    \/ NotchSetKwargs
    \/ CallFilter
    \/ Reconstruct
    \/ Reset

Spec == Init /\ [][Next]_vars

(***************************************************************************)
(* Properties of the constructors and of the dispatcher                    *)
(***************************************************************************)
\* The frame is inside (or has left) FilterRecording.__init__.
InFilterInit ==
    /\ ctor.pc # "idle"
    /\ ctor.cls \in {"FilterRecording", "BandpassFilterRecording"}
    /\ EngineBranch(ctor.engine) = "scipy"

Constructed == ctor.pc = "returned" /\ ret.kind = "recording"

\* Every margin handed to a segment so far.
SegmentMargins == {ctor.segments[k].margin : k \in 1..Len(ctor.segments)}

ExactMarginNum == ctor.margin_ms.num * ctor.recording.sf

ExactMarginDen == ctor.margin_ms.den * 1000

\* C3 as stated: for every filter variant, sampling frequency and
\* margin_ms >= 0, the margin in samples given to each filter segment is
\* round(margin_ms * sampling_frequency / 1000), also when that quotient is
\* not an integer.
C3_MarginIsRounded ==
    \A m \in SegmentMargins :
        m = RoundHalfEven(ExactMarginNum, ExactMarginDen)

\* C3 amended: the margin given to each filter segment is the quotient
\* margin_ms * sampling_frequency / 1000 truncated toward zero, that is the
\* largest integer m with m * 1000 <= margin_ms * sampling_frequency.
C3_MarginIsTruncated ==
    \A m \in SegmentMargins :
        /\ m * ExactMarginDen <= ExactMarginNum
        /\ ExactMarginNum < (m + 1) * ExactMarginDen

\* A variant has been built with a margin that is not a whole number of
\* samples (0.5 ms at 3500 Hz is 1.75 samples), and its segment got 1.
C3_Witness ==
    /\ Constructed
    /\ ctor.cls = "NotchFilterRecording"
    /\ ctor.margin_ms = Rat(1, 2)
    /\ ctor.recording.sf = 3500
    /\ Len(inst[1].segments) = ctor.recording.nseg
    /\ inst[1].segments[1].margin = 1

\* C4: filter(recording, engine=...) with an engine that is neither 'scipy'
\* nor 'opencl' ends in a configuration error: it never returns normally,
\* neither with a recording nor with None.
C4_UnknownEngineIsAnError ==
    (/\ ctor.api = "filter"
     /\ ctor.engine \notin {"scipy", "opencl"}
     /\ ctor.pc # "idle")
        => (ret.kind = "exception" /\ ctor.pc = "raised")

\* C5: an instance rebuilt from the _kwargs of an original, against the same
\* parent, has the same coefficients, representation, margin and output
\* dtype as the original (the _kwargs retain every construction parameter,
\* an explicitly given dtype included).
C5_RebuiltEqualsOriginal ==
    (Constructed /\ IsSome(orig) /\ IsSome(inst)) =>
        /\ inst[1].cls = orig[1].cls
        /\ inst[1].recording = orig[1].recording
        /\ inst[1].coeff = orig[1].coeff
        /\ inst[1].filter_mode = orig[1].filter_mode
        /\ inst[1].margin = orig[1].margin
        /\ inst[1].dtype = orig[1].dtype
        /\ inst[1].segments = orig[1].segments

\* C6: a FilterRecording with a family outside the four band types or a
\* representation outside {sos, ba} is rejected before the coefficient
\* design is called and before a segment is added; and construction is
\* atomic: a constructor that raises has added no segment and hands out no
\* recording, one that returns hands out a recording with one filter
\* segment per parent segment, all sharing the designed coefficients.
C6_InvalidRejectedAtomically ==
    /\ (InFilterInit /\ (ctor.btype \notin ValidBtypes
                          \/ ctor.filter_mode \notin ValidFilterModes)) =>
           /\ ~ctor.designed
           /\ ctor.coeff = None
           /\ ctor.segments = <<>>
           /\ ctor.pc \in {"assert_btype", "assert_mode", "raised"}
           /\ inst = None
    /\ ctor.pc = "raised" =>
           /\ ctor.segments = <<>>
           /\ inst = None
           /\ ret.kind = "exception"
    /\ (Constructed /\ InFilterInit) =>
           /\ IsSome(inst)
           /\ IsSome(inst[1].coeff)
           /\ inst[1].is_filtered
           /\ Len(inst[1].segments) = ctor.recording.nseg
           /\ \A k \in 1..Len(inst[1].segments) :
                 /\ inst[1].segments[k].coeff = inst[1].coeff[1]
                 /\ inst[1].segments[k].parent =
                        ParentSegment(ctor.recording, k)

\* A valid family with the representation 'zpk' has been rejected by the
\* second assertion.
C6_Witness ==
    /\ ctor.pc = "raised"
    /\ ctor.cls = "FilterRecording"
    /\ ctor.btype = "highpass"
    /\ ctor.filter_mode = "zpk"
    /\ ctor.exc = Some("AssertionError")

\* C7: no FilterRecording is produced from a band of the wrong cardinality:
\* bandpass and bandstop need a sequence of exactly two frequencies,
\* lowpass and highpass a single cutoff that is not a list.
C7_WrongCardinalityRejected ==
    (InFilterInit /\ ctor.pc \in {"base", "margin", "segments",
                                  "bandpass_kwargs", "returned"}) =>
        /\ ctor.btype \in TwoEdgeBtypes =>
               (ctor.band.kind = "list" /\ Len(ctor.band.v) = 2)
        /\ ctor.btype \notin TwoEdgeBtypes => ctor.band.kind = "scalar"

\* A lowpass filter given a list of two frequencies has been rejected.
C7_Witness ==
    /\ ctor.pc = "raised"
    /\ ctor.cls = "FilterRecording"
    /\ ctor.btype = "lowpass"
    /\ ctor.band = List(<<300, 6000>>)
    /\ ctor.exc = Some("TypeError")

\* C8: every BandpassFilterRecording that is built is a bandpass filter
\* with the band [freq_min, freq_max], whatever the extra keyword arguments.
C8_BandpassVariantIsBandpass ==
    (Constructed /\ ctor.cls = "BandpassFilterRecording") =>
        /\ inst[1].coeff[1].btype = "bandpass"
        /\ inst[1].coeff[1].Wn =
               List(<<Normalized(ctor.freq_min, ctor.recording.sf),
                      Normalized(ctor.freq_max, ctor.recording.sf)>>)

(***************************************************************************)
(* FilterRecordingSegment.get_traces                                       *)
(***************************************************************************)
Callers == {"a", "b"}

ChannelIndicesInputs == {<<0>>, <<1, 0, 1>>}

IdleCall ==
    [pc |-> "idle", seg |-> 1, start_frame |-> 0, end_frame |-> 0,
     channel_indices |-> <<>>, traces_chunk |-> <<>>, left_margin |-> 0,
     right_margin |-> 0, filtered_traces |-> <<>>, result |-> <<>>,
     exc |-> None]

\* parent.get_num_frames()
NumFrames(data) == Len(data)

\* parent.get_traces(lo, hi, channel_indices) within the parent's contract
\* 0 <= lo <= hi <= num_frames: the rows of the frames lo .. hi-1, one
\* column per channel index.
ParentGetTraces(data, lo, hi, channel_indices) ==
    [i \in 1..(hi - lo) |->
        [sample |-> data[lo + i], chans |-> channel_indices]]

ParentRangeValid(data, lo, hi) == 0 <= lo /\ lo <= hi /\ hi <= NumFrames(data)

\* get_chunk_with_margin(rec_segment, start_frame, end_frame,
\* channel_indices, margin): the window to fetch and the actual margins.
GetChunkWithMargin(data, start_frame, end_frame, margin) ==
    LET left == Max(0, start_frame - margin)
        right == Min(NumFrames(data), end_frame + margin)
    IN  [left |-> left, right |-> right,
         left_margin |-> start_frame - left,
         right_margin |-> right - end_frame]

\* traces_chunk, left_margin, right_margin = get_chunk_with_margin(...)
GetChunk(c) ==
    /\ frames[c].pc = "idle"
    /\ \E k \in 1..Len(segments), start_frame \in 0..MaxFrames,
          end_frame \in 0..MaxFrames, chans \in ChannelIndicesInputs :
          /\ start_frame <= NumFrames(parent[k])
          /\ end_frame <= NumFrames(parent[k])
          /\ LET w == GetChunkWithMargin(parent[k], start_frame, end_frame,
                                         segments[k].margin)
                 f == [IdleCall EXCEPT !.seg = k,
                                       !.start_frame = start_frame,
                                       !.end_frame = end_frame,
                                       !.channel_indices = chans]
             IN  frames' = [frames EXCEPT ![c] =
                   IF ~ParentRangeValid(parent[k], w.left, w.right)
                   THEN \* the parent refuses a window that breaks its
                        \* contract (left > right)
                        [f EXCEPT !.pc = "raised",
                                  !.exc = Some("ValueError")]
                   ELSE [f EXCEPT !.pc = "fetched",
                                  !.traces_chunk =
                                      ParentGetTraces(parent[k], w.left,
                                                      w.right, chans),
                                  !.left_margin = w.left_margin,
                                  !.right_margin = w.right_margin]]
    /\ UNCHANGED <<buildVars, segments, parent>>

\* A zero-phase (forward-backward) filter along axis 0: one output row per
\* input row, each a function of the coefficients and of the whole chunk.
ZeroPhase(fn, coeff, chunk) ==
    [i \in 1..Len(chunk) |->
        [sample |-> chunk[i].sample, chans |-> chunk[i].chans,
         filt |-> [fn |-> fn, coeff |-> coeff,
                   window |-> [j \in 1..Len(chunk) |-> chunk[j].sample]]]]

\* scipy.signal.sosfiltfilt(self.coeff, traces_chunk, axis=0)
SosFiltFilt(coeff, chunk) == ZeroPhase("sosfiltfilt", coeff, chunk)

\* b, a = self.coeff; scipy.signal.filtfilt(b, a, traces_chunk, axis=0)
FiltFilt(coeff, chunk) == ZeroPhase("filtfilt", coeff, chunk)

\* if self.filter_mode == 'sos': ... elif self.filter_mode == 'ba': ...
ApplyFilter(c) ==
    /\ frames[c].pc = "fetched"
    /\ LET f == frames[c]
           s == segments[f.seg]
       IN  frames' = [frames EXCEPT ![c] =
             IF s.filter_mode = "sos"
             THEN [f EXCEPT !.pc = "filtered",
                            !.filtered_traces =
                                SosFiltFilt(s.coeff, f.traces_chunk)]
             ELSE IF s.filter_mode = "ba"
             THEN [f EXCEPT !.pc = "filtered",
                            !.filtered_traces =
                                FiltFilt(s.coeff, f.traces_chunk)]
             ELSE \* filtered_traces was never bound
                  [f EXCEPT !.pc = "raised",
                            !.exc = Some("UnboundLocalError")]]
    /\ UNCHANGED <<buildVars, segments, parent>>

\* A Python index of a slice over n items: negative counts from the end,
\* and the result is clamped to 0 .. n.
PyIndex(i, n) == IF i < 0 THEN Max(i + n, 0) ELSE Min(i, n)

\* x[a:b]
PySlice(x, a, b) ==
    SubSeq(x, PyIndex(a, Len(x)) + 1, PyIndex(b, Len(x)))

\* x[a:]
PySliceFrom(x, a) == SubSeq(x, PyIndex(a, Len(x)) + 1, Len(x))

\* The trim without the right_margin > 0 test.
TrimNoBranch(filtered_traces, left_margin, right_margin) ==
    PySlice(filtered_traces, left_margin, -right_margin)

\* The trim with the two margins exchanged.
TrimSwapped(filtered_traces, left_margin, right_margin) ==
    IF left_margin > 0
    THEN PySlice(filtered_traces, right_margin, -left_margin)
    ELSE PySliceFrom(filtered_traces, right_margin)

\* if right_margin > 0: filtered_traces[left_margin:-right_margin, :]
\* else: filtered_traces[left_margin:, :]
Trim(filtered_traces, left_margin, right_margin) ==
    IF right_margin > 0
    THEN PySlice(filtered_traces, left_margin, -right_margin)
    ELSE PySliceFrom(filtered_traces, left_margin)

\* filtered_traces.astype(self.dtype)
AsType(traces, dtype) ==
    [i \in 1..Len(traces) |->
        [sample |-> traces[i].sample, chans |-> traces[i].chans,
         filt |-> traces[i].filt, dtype |-> dtype]]

\* The margins of a call kept on the object, where the other call in
\* progress overwrites them.
SharedMargins(fs, c) ==
    LET others == {d \in Callers \ {c} : fs[d].pc \in {"fetched", "filtered"}}
    IN  IF others = {} THEN <<fs[c].left_margin, fs[c].right_margin>>
        ELSE LET d == CHOOSE d \in others : TRUE
             IN  <<fs[d].left_margin, fs[d].right_margin>>

\* left_margin and right_margin are local variables of the call.
LocalMargins(fs, c) == <<fs[c].left_margin, fs[c].right_margin>>

\* The trim and the cast; get_traces returns.
TrimAndReturn(c) ==
    /\ frames[c].pc = "filtered"
    /\ LET f == frames[c]
           m == LocalMargins(frames, c)
       IN  frames' = [frames EXCEPT ![c] =
             [f EXCEPT !.pc = "done",
                       !.result = AsType(Trim(f.filtered_traces, m[1], m[2]),
                                         segments[f.seg].dtype)]]
    /\ UNCHANGED <<buildVars, segments, parent>>

\* The caller takes the result (or the exception) and may call again.
Finish(c) ==
    /\ frames[c].pc \in {"done", "raised"}
    /\ frames' = [frames EXCEPT ![c] = IdleCall]
    /\ UNCHANGED <<buildVars, segments, parent>>

\* A parent of two segments and a filter recording built over it: every
\* segment shares the coefficients, the representation and the margin.
ReadRecording == [sf |-> 30000, nseg |-> 2, dtype |-> "int16"]

ParentData(k, n) == [f \in 1..n |-> [seg |-> k, frame |-> f - 1]]

ReadInit ==
    /\ ctor = IdleFrame
    /\ inst = None
    /\ orig = None
    /\ ret = [kind |-> "idle", exc |-> None]
    /\ parent = <<ParentData(1, MaxFrames), ParentData(2, MaxFrames - 2)>>
    /\ \E margin \in 0..MaxMargin, mode \in ValidFilterModes :
          segments =
            [k \in 1..2 |->
               FilterRecordingSegment(
                   ParentSegment(ReadRecording, k),
                   IirFilter(DefaultFilterOrder,
                             BandToWn(DefaultBand, DefaultBtype, 30000).Wn,
                             DefaultBtype, DefaultFtype, mode),
                   mode, margin, "float32")]
    /\ frames = [c \in Callers |-> IdleCall]

ReadNext ==
    \E c \in Callers :
        \/ GetChunk(c)
        \/ ApplyFilter(c)
        \/ TrimAndReturn(c)
        \/ Finish(c)

ReadSpec == ReadInit /\ [][ReadNext]_vars

(***************************************************************************)
(* Properties of get_traces                                                *)
(***************************************************************************)
\* The request of caller c respects 0 <= start_frame <= end_frame <= L.
ValidRequest(c) ==
    /\ frames[c].pc # "idle"
    /\ 0 <= frames[c].start_frame
    /\ frames[c].start_frame <= frames[c].end_frame
    /\ frames[c].end_frame <= NumFrames(parent[frames[c].seg])

\* The frames of the rows of a buffer, in order.
FramesOf(traces) == [i \in 1..Len(traces) |-> traces[i].sample.frame]

\* The frames lo, lo+1, ..., hi-1.
FrameRange(lo, hi) == [i \in 1..(hi - lo) |-> lo + i - 1]

C2_WindowAndAlignment ==
    \A c \in Callers :
        (ValidRequest(c) /\ frames[c].pc \in {"fetched", "filtered", "done"})
        => LET f == frames[c]
               m == segments[f.seg].margin
               L == NumFrames(parent[f.seg])
               lo == Max(0, f.start_frame - m)
               hi == Min(L, f.end_frame + m)
           IN  /\ FramesOf(f.traces_chunk) = FrameRange(lo, hi)
               /\ f.left_margin = Min(m, f.start_frame)
               /\ f.right_margin = Min(m, L - f.end_frame)
               /\ f.left_margin + (f.end_frame - f.start_frame)
                      + f.right_margin = Len(f.traces_chunk)
               /\ f.pc = "done" =>
                      /\ FramesOf(f.result) =
                             FrameRange(f.start_frame, f.end_frame)
                      /\ \A i \in 1..Len(f.result) :
                             /\ f.result[i].sample.seg = f.seg
                             /\ f.result[i].chans = f.channel_indices
                             /\ FramesOf([j \in 1..Len(f.result[i].filt.window)
                                            |-> [sample |->
                                                 f.result[i].filt.window[j]]])
                                    = FrameRange(lo, hi)

\* A call whose left margin is clipped by the start of the parent and whose
\* right margin is whole has returned.
C2_Witness ==
    \E c \in Callers :
        /\ frames[c].pc = "done"
        /\ frames[c].seg = 1
        /\ segments[1].margin = 2
        /\ frames[c].start_frame = 1
        /\ frames[c].end_frame = 2
        /\ frames[c].left_margin = 1
        /\ frames[c].right_margin = 2

\* C9: a get_traces request with start_frame > end_frame is a
\* request-validation failure: it never yields a buffer, and neither the
\* margin extraction nor the trim turns the range into a valid one.
C9_ReversedRangeRejected ==
    \A c \in Callers :
        (frames[c].pc # "idle"
         /\ frames[c].start_frame > frames[c].end_frame)
        => frames[c].pc # "done"

\* What a call returns when it runs alone: the filtered rows of the frames
\* start_frame .. end_frame-1, filtered over the clipped window with the
\* segment's coefficients, cast to the segment's dtype.
ExpectedTraces(s, data, start_frame, end_frame, channel_indices) ==
    LET lo == Max(0, start_frame - s.margin)
        hi == Min(NumFrames(data), end_frame + s.margin)
        fn == IF s.filter_mode = "sos" THEN "sosfiltfilt" ELSE "filtfilt"
    IN  [i \in 1..(end_frame - start_frame) |->
            [sample |-> data[start_frame + i], chans |-> channel_indices,
             filt |-> [fn |-> fn, coeff |-> s.coeff,
                       window |-> SubSeq(data, lo + 1, hi)],
             dtype |-> s.dtype]]

\* Every call that has returned on a valid request holds the result of the
\* same call run alone.
C10_ResultsAsAlone ==
    \A c \in Callers :
        (ValidRequest(c) /\ frames[c].pc = "done") =>
            frames[c].result =
                ExpectedTraces(segments[frames[c].seg],
                               parent[frames[c].seg], frames[c].start_frame,
                               frames[c].end_frame, frames[c].channel_indices)

\* C10: no step of get_traces changes a filter segment (coeff, filter_mode,
\* margin, dtype, parent reference) or the parent's data, and under every
\* interleaving of the calls of the two callers each call returns what it
\* returns when it runs alone, a function of its arguments only (so a
\* repeated call returns the same result).
C10_CallsAreIndependent ==
    /\ [][segments' = segments /\ parent' = parent]_vars
    /\ []C10_ResultsAsAlone

\* Two calls on the same segment with different margins are both past the
\* fetch, and one of them has returned.
C10_Witness ==
    /\ frames["a"].pc = "done"
    /\ frames["b"].pc \in {"filtered", "done"}
    /\ frames["a"].seg = frames["b"].seg
    /\ frames["a"].left_margin # frames["b"].left_margin
    /\ frames["a"].end_frame > frames["a"].start_frame

====
